---- MODULE Spec2Model ----
(***************************************************************************)
(* Model of word-ruby: ruby_processor.apply_ruby_to_document, the engine   *)
(* that replaces occurrences of target words inside the runs of a Word     *)
(* document by ruby (furigana) elements, under the modes 'once',           *)
(* 'per_page' and 'all'; and of the three-step wizard of app.py that calls  *)
(* it.                                                                     *)
(*                                                                         *)
(* Text is a sequence of one-character strings.  A paragraph is the        *)
(* sequence of the children of its w:p element: runs (w:r) and ruby        *)
(* elements (w:ruby).  A run record holds its text, its rPr ("none" when   *)
(* the run has no w:rPr child), whether its XML holds a page-break marker  *)
(* (w:lastRenderedPageBreak or w:br w:type="page"), who wrote its text     *)
(* element and with which xml:space ("input": as loaded; "docx": written   *)
(* by the text setter of python-docx; "preserve" or "default": written by  *)
(* the engine for an after run) and, as a ghost field, src: the index of   *)
(* the input run of the paragraph its text came from.                      *)
(***************************************************************************)
EXTENDS Integers, Sequences, FiniteSets, TLC

\* ------------------------------------------------------------------ bounds
MaxSize == 5        \* size of an input document: its runs plus its characters
MaxChildren == 12   \* cap on the children of one paragraph (empty-word loop)
MaxRows == 2        \* rows of the rule table of the wizard

RunCounts == {1, 2, 3}

Alphabet == {"a", "b"}
Words == {<<"b">>, <<"a", "b">>}
Modes == {"once", "per_page", "all"}

\* ----------------------------------------------------------- pure helpers
Strings(n) == UNION {[1..k -> Alphabet] : k \in 0..n}

\* str.find(word): lowest 0-based index of word in text, -1 when absent
\* (the empty word is found at index 0 of every text).
RECURSIVE find_from(_, _, _)
find_from(text, word, k) ==
    IF k + Len(word) > Len(text) THEN -1
    ELSE IF SubSeq(text, k + 1, k + Len(word)) = word THEN k
    ELSE find_from(text, word, k + 1)

\* Faulty variant of find: the word is only looked for at the start of the
\* text.
find_at_start(text, word) ==
    IF Len(word) <= Len(text) /\ SubSeq(text, 1, Len(word)) = word
    THEN 0 ELSE -1

find(text, word) == find_from(text, word, 0)

\* Faulty variant of sorted: the settings stay in registration order.
sorted_unsorted(rs) == rs

\* Faulty variant of sorted: not stable, a setting goes in front of the
\* settings of equal word length registered before it.
RECURSIVE sorted_unstable(_)
sorted_unstable(rs) ==
    IF rs = <<>> THEN <<>>
    ELSE LET s == sorted_unstable(SubSeq(rs, 1, Len(rs) - 1))
             x == rs[Len(rs)]
             k == Cardinality({j \in 1..Len(s) :
                                  Len(s[j].word) > Len(x.word)})
         IN SubSeq(s, 1, k) \o <<x>> \o SubSeq(s, k + 1, Len(s))

\* sorted(ruby_settings, key=len(word), reverse=True): stable, so settings of
\* equal word length keep their registration order.
RECURSIVE sorted(_)
sorted(rs) ==
    IF rs = <<>> THEN <<>>
    ELSE LET s == sorted(SubSeq(rs, 1, Len(rs) - 1))
             x == rs[Len(rs)]
             k == Cardinality({j \in 1..Len(s) :
                                  Len(s[j].word) >= Len(x.word)})
         IN SubSeq(s, 1, k) \o <<x>> \o SubSeq(s, k + 1, Len(s))

\* {item['word']: False for item in ruby_settings}
NoneApplied(rs) == [w \in {rs[k].word : k \in 1..Len(rs)} |-> FALSE]

\* Faulty variant of create_ruby_element: w:rubyBase appended before w:rt.
create_ruby_element_swapped(text, ruby_text) ==
    [kind     |-> "ruby",
     rubyPr   |-> "distributeSpace",
     rt       |-> ruby_text,
     rubyBase |-> text,
     children |-> <<[tag |-> "w:rubyPr", runs |-> <<>>],
                    [tag |-> "w:rubyBase", runs |-> <<text>>],
                    [tag |-> "w:rt", runs |-> <<ruby_text>>]>>]

\* create_ruby_element(text, ruby_text): w:rubyPr, then w:rt holding one run
\* with the reading, then w:rubyBase holding one run with the base text.
\* children lists the sub-elements in the order of the ruby.append calls,
\* each with the texts of the runs it holds; rubyPr is the w:rubyAlign value,
\* rt and rubyBase are the texts of the w:t elements of w:rt and w:rubyBase.
create_ruby_element(text, ruby_text) ==
    [kind     |-> "ruby",
     rubyPr   |-> "distributeSpace",
     rt       |-> ruby_text,
     rubyBase |-> text,
     children |-> <<[tag |-> "w:rubyPr", runs |-> <<>>],
                    [tag |-> "w:rt", runs |-> <<ruby_text>>],
                    [tag |-> "w:rubyBase", runs |-> <<text>>]>>]

\* paragraph.runs: the w:r elements that are direct children of the paragraph,
\* given as the positions of those children.  The runs nested inside a w:ruby
\* element are not among them.
runs(para) ==
    LET RECURSIVE pos(_)
        pos(k) == IF k > Len(para) THEN <<>>
                  ELSE IF para[k].kind = "r" THEN <<k>> \o pos(k + 1)
                  ELSE pos(k + 1)
    IN pos(1)

\* 'w:lastRenderedPageBreak' in xml_str or 'w:type="page"' in xml_str
is_page_break(run) == run.marker

\* Faulty variant of skipped: the 'once' check left out.
skipped_page_only(m, ga, pg, word) == m = "per_page" /\ pg[word]

\* if mode == 'once' and global_applied[word]: continue
\* if mode == 'per_page' and items_applied_on_page[word]: continue
skipped(m, ga, pg, word) ==
    \/ m = "once" /\ ga[word]
    \/ m = "per_page" /\ pg[word]

\* The for-loop over sorted_settings: index of the first setting that is not
\* skipped by the mode and whose word occurs in the text; 0 when none does.
RECURSIVE match_from(_, _, _, _, _, _)
match_from(ss, m, ga, pg, text, k) ==
    IF k > Len(ss) THEN 0
    ELSE IF ~skipped(m, ga, pg, ss[k].word) /\ find(text, ss[k].word) # -1
         THEN k
         ELSE match_from(ss, m, ga, pg, text, k + 1)

match(ss, m, ga, pg, text) == match_from(ss, m, ga, pg, text, 1)

\* Faulty variants of the two slices: the before text takes one character of
\* the match; the after text keeps the match; the after text starts late.
text_before_incl(text, idx) == SubSeq(text, 1, idx + 1)
\* text_before = original_text[:idx]
text_before(text, idx) == SubSeq(text, 1, idx)
text_after_keep(text, idx, word) == SubSeq(text, idx + 1, Len(text))
text_after_skip(text, idx, word) ==
    SubSeq(text, idx + Len(word) + 2, Len(text))
\* text_after = original_text[idx+len(word):]
text_after(text, idx, word) == SubSeq(text, idx + Len(word) + 1, Len(text))

\* run.text = text_before: python-docx's setter removes every child of the
\* run except w:rPr and writes the text anew, so the formatting stays and a
\* page-break marker child is dropped.
set_text(run, text) ==
    [run EXCEPT !.text = text, !.marker = FALSE, !.space = "docx"]

\* if len(text_after) > 0 and (text_after[0] == ' ' or text_after[-1] == ' '):
\*     t_u.set(qn('xml:space'), 'preserve')
xml_space(text) ==
    IF Len(text) > 0 /\ (text[1] = " " \/ text[Len(text)] = " ")
    THEN "preserve" ELSE "default"

\* Faulty variant of new_run: the rPr is not copied.
new_run_plain(run, text) ==
    [kind |-> "r", text |-> text, rPr |-> "none", marker |-> FALSE,
     space |-> xml_space(text), src |-> run.src]

\* new_run: a w:r with a deep copy of the original rPr (when there is one)
\* and one w:t holding text_after, with xml:space="preserve" when set.
new_run(run, text) ==
    [kind |-> "r", text |-> text, rPr |-> run.rPr, marker |-> FALSE,
     space |-> xml_space(text), src |-> run.src]

\* Faulty variant of restart: the scan goes on behind the run that was split.
restart_continue(idx) == idx + 1

\* if match_found: i = -1, then i += 1: the paragraph is scanned again from
\* its first run.
restart(idx) == 0

\* Faulty variant of split: the after run is made also when text_after is
\* empty.
split_always_after(para, k, setting, idx) ==
    LET run  == para[k]
        tb   == text_before(run.text, idx)
        ta   == text_after(run.text, idx, setting.word)
        elem == create_ruby_element(setting.word, setting.ruby)
                    @@ [src |-> run.src]
    IN SubSeq(para, 1, k - 1)
         \o <<set_text(run, tb), elem, new_run(run, ta)>>
         \o SubSeq(para, k + 1, Len(para))

\* Faulty variant of split: the after run is added next to the run, not next
\* to the ruby element, so it comes before the ruby element.
split_after_first(para, k, setting, idx) ==
    LET run  == para[k]
        tb   == text_before(run.text, idx)
        ta   == text_after(run.text, idx, setting.word)
        elem == create_ruby_element(setting.word, setting.ruby)
                    @@ [src |-> run.src]
    IN SubSeq(para, 1, k - 1)
         \o <<set_text(run, tb)>>
         \o (IF ta # <<>> THEN <<new_run(run, ta)>> ELSE <<>>)
         \o <<elem>>
         \o SubSeq(para, k + 1, Len(para))

\* The splice: run.text = text_before; run_xml.addnext(ruby_elem);
\* if text_after: ruby_elem.addnext(new_run).
split(para, k, setting, idx) ==
    LET run  == para[k]
        tb   == text_before(run.text, idx)
        ta   == text_after(run.text, idx, setting.word)
        elem == create_ruby_element(setting.word, setting.ruby)
                    @@ [src |-> run.src]
    IN SubSeq(para, 1, k - 1)
         \o <<set_text(run, tb), elem>>
         \o (IF ta # <<>> THEN <<new_run(run, ta)>> ELSE <<>>)
         \o SubSeq(para, k + 1, Len(para))

\* ------------------------------------------------------------------ state
VARIABLES
    ruby_settings,          \* the rule list handed to apply_ruby_to_document
    sorted_settings,        \* the rules sorted by word length, longest first
    mode,                   \* its mode argument
    paragraphs,             \* doc.paragraphs, mutated in place
    global_applied,         \* word -> applied somewhere in the document
    items_applied_on_page,  \* word -> applied on the current page
    p,                      \* index of the paragraph of the for loop
    i,                      \* the run index of the while loop
    pc,                     \* "scan" inside the loops, "done" after doc.save
    saved,                  \* the output document has been written
    pass,                   \* 1: first call, 2: second call on its output
    input,                  \* ghost: the document as it was loaded
    step,                   \* app.py: st.session_state.step
    ruby_list,              \* app.py: st.session_state.ruby_list
    uploaded_file,          \* app.py: the file uploader holds a file
    called,                 \* app.py: the last pass called the conversion
    event                   \* ghost: the user action that started the last pass

ui == <<step, ruby_list, uploaded_file, called, event>>

vars == <<ruby_settings, sorted_settings, mode, paragraphs, global_applied,
          items_applied_on_page, p, i, pc, saved, pass, input,
          step, ruby_list, uploaded_file, called, event>>

\* ----------------------------------------------------------------- inputs
\* All sequences of n texts with at most c characters in total.
RECURSIVE TextTuples(_, _)
TextTuples(n, c) ==
    IF n = 0 THEN {<<>>}
    ELSE UNION {{<<t>> \o rest : rest \in TextTuples(n - 1, c - Len(t))} :
                  t \in Strings(c)}

\* An input document of n runs: their texts, which of them carry a page-break
\* marker and which of them start a new paragraph.  Formatting is opaque to
\* the engine: odd runs are bold, even runs have no rPr, so neighbours differ.
Layouts ==
    UNION {[texts  : TextTuples(n, MaxSize - n),
            marker : [1..n -> BOOLEAN],
            newpar : {f \in [1..n -> BOOLEAN] : f[1]}] : n \in RunCounts}

RECURSIVE build(_, _)
build(L, n) ==
    IF n = 0 THEN <<>>
    ELSE LET d == build(L, n - 1)
             f == IF n % 2 = 1 THEN "bold" ELSE "none"
             r(s) == [kind |-> "r", text |-> L.texts[n], rPr |-> f,
                      marker |-> L.marker[n], space |-> "input", src |-> s]
         IN IF L.newpar[n]
            THEN d \o << <<r(1)>> >>
            ELSE SubSeq(d, 1, Len(d) - 1)
                   \o << d[Len(d)] \o <<r(Len(d[Len(d)]) + 1)>> >>

Docs == {build(L, Len(L.texts)) : L \in Layouts}

\* Readings are opaque to the engine: the k-th registered rule reads "x", "y".
Reading(k) == IF k = 1 THEN <<"x">> ELSE <<"y">>

RuleLists ==
    {<<[word |-> w, ruby |-> Reading(1)]>> : w \in Words}
      \cup {<<[word |-> w, ruby |-> Reading(1)],
              [word |-> v, ruby |-> Reading(2)]>> : w \in Words, v \in Words}

\* The engine called on its own, without the wizard.
NoUi ==
    /\ step = 1
    /\ ruby_list = <<>>
    /\ uploaded_file = FALSE
    /\ called = FALSE
    /\ event = "none"

Start ==
    /\ sorted_settings = sorted(ruby_settings)
    /\ input = paragraphs
    /\ global_applied = NoneApplied(ruby_settings)
    /\ items_applied_on_page = NoneApplied(ruby_settings)
    /\ p = 1
    /\ i = 0
    /\ pc = "scan"
    /\ saved = FALSE
    /\ pass = 1
    /\ NoUi

\* Valid calls: one or two rules with non-empty word and reading, a known mode.
Init ==
    /\ ruby_settings \in RuleLists
    /\ mode \in Modes
    /\ paragraphs \in Docs
    /\ Start

\* Calls of mode 'all' only (the second-call specification).
InitAll == Init /\ mode = "all"

\* Calls the specification calls configuration errors: an empty rule list, a
\* rule with an empty word or an empty reading, an unknown mode.
BadRule(r) == r.word = <<>> \/ r.ruby = <<>>

BadRuleLists ==
    {<<>>}
      \cup {<<r>> : r \in {q \in [word : Words \cup {<<>>},
                                  ruby : {Reading(1), <<>>}] : BadRule(q)}}
      \cup {<<[word |-> w, ruby |-> Reading(1)],
              [word |-> <<>>, ruby |-> Reading(2)]>> : w \in Words}

InitCfg ==
    /\ \/ ruby_settings \in BadRuleLists /\ mode \in Modes
       \/ ruby_settings \in RuleLists /\ mode = "bogus"
    /\ paragraphs \in Docs
    /\ Start

\* ---------------------------------------------------------------- actions
InLoop == pc = "scan" /\ p <= Len(paragraphs) /\ i < Len(runs(paragraphs[p]))

CurPos == runs(paragraphs[p])[i + 1]
CurRun == paragraphs[p][CurPos]

\* items_applied_on_page as it is after the page-break check of lines 131-134
AfterBreakCheck ==
    IF is_page_break(CurRun) THEN NoneApplied(sorted_settings)
    ELSE items_applied_on_page

\* Faulty variant of CurMatch: the text is searched with the per-page tracker
\* as it was before the page-break check.
CurMatch_before_reset ==
    match(sorted_settings, mode, global_applied, items_applied_on_page,
          CurRun.text)

CurMatch == match(sorted_settings, mode, global_applied, AfterBreakCheck,
                  CurRun.text)

\* One iteration of the while loop that finds no match: the run is empty
\* (i += 1; continue) or no setting matches (i += 1).
ScanRun ==
    /\ InLoop
    /\ CurRun.text = <<>> \/ CurMatch = 0
    /\ items_applied_on_page' = AfterBreakCheck
    /\ i' = i + 1
    /\ UNCHANGED <<ruby_settings, sorted_settings, mode, paragraphs,
                   global_applied, p, pc, saved, pass, input>>
    /\ UNCHANGED ui

\* One iteration of the while loop that finds a match: mark the word, split
\* the run, restart the paragraph (i = -1; i += 1).
SplitRun ==
    /\ InLoop
    /\ CurRun.text # <<>> /\ CurMatch # 0
    /\ Len(paragraphs[p]) + 2 <= MaxChildren
    /\ LET setting == sorted_settings[CurMatch]
           idx == find(CurRun.text, setting.word)
       IN /\ global_applied' =
                IF mode = "once"
                THEN [global_applied EXCEPT ![setting.word] = TRUE]
                ELSE global_applied
          /\ items_applied_on_page' =
                IF mode = "per_page"
                THEN [AfterBreakCheck EXCEPT ![setting.word] = TRUE]
                ELSE AfterBreakCheck
          /\ paragraphs' =
                [paragraphs EXCEPT ![p] = split(@, CurPos, setting, idx)]
    /\ i' = restart(i)
    /\ UNCHANGED <<ruby_settings, sorted_settings, mode, p, pc, saved, pass,
                   input>>
    /\ UNCHANGED ui

\* The while loop of a paragraph ends; the for loop takes the next paragraph.
EndParagraph ==
    /\ pc = "scan"
    /\ p <= Len(paragraphs)
    /\ i >= Len(runs(paragraphs[p]))
    /\ p' = p + 1
    /\ i' = 0
    /\ UNCHANGED <<ruby_settings, sorted_settings, mode, paragraphs,
                   global_applied, items_applied_on_page, pc, saved, pass,
                   input>>
    /\ UNCHANGED ui

\* doc.save(output_path); return output_path
Save ==
    /\ pc = "scan"
    /\ p > Len(paragraphs)
    /\ pc' = "done"
    /\ saved' = TRUE
    /\ UNCHANGED <<ruby_settings, sorted_settings, mode, paragraphs,
                   global_applied, items_applied_on_page, p, i, pass, input>>
    /\ UNCHANGED ui

\* A second call of apply_ruby_to_document with the same settings and mode on
\* the document the first call wrote: fresh trackers, first paragraph.
SecondCall ==
    /\ pc = "done"
    /\ pass = 1
    /\ pass' = 2
    /\ global_applied' = NoneApplied(ruby_settings)
    /\ items_applied_on_page' = NoneApplied(ruby_settings)
    /\ p' = 1
    /\ i' = 0
    /\ pc' = "scan"
    /\ saved' = FALSE
    /\ UNCHANGED <<ruby_settings, sorted_settings, mode, paragraphs, input>>
    /\ UNCHANGED ui

Next == ScanRun \/ SplitRun \/ EndParagraph \/ Save

Spec == Init /\ [][Next]_vars

\* The call runs to completion: single-threaded, no suspension points.
FairSpec == Spec /\ WF_vars(Next)

\* Calls with configuration errors.
SpecCfg == InitCfg /\ [][Next]_vars

\* A call of mode 'all' followed by a second call on its output.
NextTwice == ScanRun \/ SplitRun \/ EndParagraph \/ Save \/ SecondCall

SpecTwice == InitAll /\ [][NextTwice]_vars

\* Calls on documents with whitespace: one paragraph of one run whose text is
\* made of the letter of the rule, spaces, tabs and line breaks.
Whitespace == {" ", "\t", "\n"}

WsTexts == UNION {[1..k -> {"b"} \cup Whitespace] : k \in 0..(MaxSize - 1)}

WsDocs ==
    {<< <<[kind |-> "r", text |-> t, rPr |-> "bold", marker |-> FALSE,
           space |-> "input", src |-> 1]>> >> : t \in WsTexts}

InitWs ==
    /\ ruby_settings = <<[word |-> <<"b">>, ruby |-> Reading(1)]>>
    /\ mode \in Modes
    /\ paragraphs \in WsDocs
    /\ Start

SpecWs == InitWs /\ [][Next]_vars

\* ------------------------------------------------------- the wizard (app.py)
\* A pass is one run of the script, started by one user action on a widget
\* that the pass before has rendered; st.rerun() ends the pass and runs the
\* script again without a user action, which changes nothing more.  An action
\* below is the user action with the pass, and the rerun pass, it starts.

\* The cells of the rule table: a text, possibly empty.
UiNouns == {<<>>, <<"b">>}
UiRubies == {<<>>, <<"x">>}
UiRows == [noun : UiNouns, ruby : UiRubies]
UiLists == UNION {[1..n -> UiRows] : n \in 0..MaxRows}

\* [{'word': str(item['noun']), 'ruby': str(item['ruby'])} for item in ...]
to_settings(list) ==
    [k \in 1..Len(list) |-> [word |-> list[k].noun, ruby |-> list[k].ruby]]

\* The engine is not running.
Idle ==
    /\ ruby_settings = <<>>
    /\ sorted_settings = <<>>
    /\ mode = "once"
    /\ paragraphs = <<>>
    /\ input = <<>>
    /\ global_applied = <<>>
    /\ items_applied_on_page = <<>>
    /\ p = 1
    /\ i = 0
    /\ pc = "idle"
    /\ saved = FALSE
    /\ pass = 1

\* if 'ruby_list' not in st.session_state: ... = []
\* if 'step' not in st.session_state: ... = 1
InitUi ==
    /\ step = 1
    /\ ruby_list = <<>>
    /\ uploaded_file = FALSE
    /\ called = FALSE
    /\ event = "none"
    /\ Idle

\* A pass that does not call the conversion: its arguments do not exist.
NoCall ==
    /\ called' = FALSE
    /\ ruby_settings' = <<>>
    /\ mode' = "once"
    /\ UNCHANGED <<sorted_settings, paragraphs, global_applied,
                   items_applied_on_page, p, i, pc, saved, pass, input>>

\* The user puts a file into the uploader (or replaces the one it holds).
Upload ==
    /\ pc = "idle"
    /\ uploaded_file' = TRUE
    /\ event' = "upload"
    /\ UNCHANGED <<step, ruby_list>>
    /\ NoCall

\* The user removes the file from the uploader.
RemoveFile ==
    /\ pc = "idle"
    /\ uploaded_file
    /\ uploaded_file' = FALSE
    /\ event' = "remove"
    /\ UNCHANGED <<step, ruby_list>>
    /\ NoCall

\* The button next_to_2, rendered when a file is uploaded and step == 1.
NextTo2 ==
    /\ pc = "idle"
    /\ uploaded_file
    /\ step = 1
    /\ step' = 2
    /\ event' = "next_to_2"
    /\ UNCHANGED <<ruby_list, uploaded_file>>
    /\ NoCall

\* The form add_ruby_form, rendered when step >= 2: the row is appended when
\* both fields are filled, else a warning is shown.
AddRow ==
    /\ pc = "idle"
    /\ step >= 2
    /\ \E noun \in UiNouns, ruby \in UiRubies :
          IF noun # <<>> /\ ruby # <<>>
          THEN /\ Len(ruby_list) < MaxRows
               /\ ruby_list' = Append(ruby_list,
                                      [noun |-> noun, ruby |-> ruby])
          ELSE ruby_list' = ruby_list
    /\ event' = "add"
    /\ UNCHANGED <<step, uploaded_file>>
    /\ NoCall

\* The data editor, rendered when step >= 2 and the list is not empty: the
\* user edits cells, deletes rows or adds rows, and the list is set to the
\* edited table.
EditRows ==
    /\ pc = "idle"
    /\ step >= 2
    /\ ruby_list # <<>>
    /\ \E current \in UiLists :
          /\ current # ruby_list
          /\ ruby_list' = current
    /\ event' = "edit"
    /\ UNCHANGED <<step, uploaded_file>>
    /\ NoCall

\* The button next_to_3, rendered when the list is not empty and step == 2.
NextTo3 ==
    /\ pc = "idle"
    /\ ruby_list # <<>>
    /\ step = 2
    /\ step' = 3
    /\ event' = "next_to_3"
    /\ UNCHANGED <<ruby_list, uploaded_file>>
    /\ NoCall

\* Faulty variant of execute_branch: the rule list is not looked at.
execute_branch_unchecked(file, list) ==
    IF ~file THEN "no_file" ELSE "run"

\* if not uploaded_file: ... elif not st.session_state.ruby_list: ... else: ...
execute_branch(file, list) ==
    IF ~file THEN "no_file"
    ELSE IF list = <<>> THEN "no_rules"
    ELSE "run"

\* The execute button, rendered when step >= 3, with the mode of the radio.
Execute ==
    /\ pc = "idle"
    /\ step >= 3
    /\ event' = "execute"
    /\ LET branch == execute_branch(uploaded_file, ruby_list)
       IN /\ step' = CASE branch = "no_file"  -> 1
                      [] branch = "no_rules" -> 2
                      [] OTHER               -> step
          /\ IF branch = "run"
             THEN /\ called' = TRUE
                  /\ ruby_settings' = to_settings(ruby_list)
                  /\ mode' \in Modes
                  /\ UNCHANGED <<sorted_settings, paragraphs, global_applied,
                                 items_applied_on_page, p, i, pc, saved, pass,
                                 input>>
             ELSE NoCall
    /\ UNCHANGED <<ruby_list, uploaded_file>>

NextUi ==
    Upload \/ RemoveFile \/ NextTo2 \/ AddRow \/ EditRows \/ NextTo3
      \/ Execute

SpecUi == InitUi /\ [][NextUi]_vars

\* ------------------------------------------------- vocabulary of the claims
Paras == 1..Len(paragraphs)
RubyAt(q) == {k \in 1..Len(paragraphs[q]) : paragraphs[q][k].kind = "ruby"}
RunAt(q) == {k \in 1..Len(paragraphs[q]) : paragraphs[q][k].kind = "r"}
AllRuby == {<<q, k>> \in Paras \X (1..MaxChildren) : k \in RubyAt(q)}
TargetWords == {ruby_settings[k].word : k \in 1..Len(ruby_settings)}

\* word occurs in text at 0-based offset k
OccursAt(text, word, k) ==
    /\ k >= 0
    /\ k + Len(word) <= Len(text)
    /\ \A j \in 1..Len(word) : text[k + j] = word[j]

Occurs(text, word) == \E k \in 0..Len(text) : OccursAt(text, word, k)

\* The text of a paragraph with every ruby element replaced by its base word.
RECURSIVE Flat(_)
Flat(para) ==
    IF para = <<>> THEN <<>>
    ELSE (IF para[1].kind = "r" THEN para[1].text ELSE para[1].rubyBase)
           \o Flat(Tail(para))

\* C5: text preservation.  In every state, for every paragraph, putting the
\* base word of each ruby element back between the run texts gives the text
\* the paragraph had when the document was loaded: the run texts alone are
\* the original text with each annotated word removed once at its site.
TextPreserved ==
    /\ Len(paragraphs) = Len(input)
    /\ \A q \in Paras : Flat(paragraphs[q]) = Flat(input[q])

\* A split has happened in the middle of a run: text before and text after.
TextPreservedWitness ==
    \E q \in Paras : \E k \in RubyAt(q) :
        /\ k + 1 <= Len(paragraphs[q])
        /\ paragraphs[q][k - 1].text # <<>>
        /\ paragraphs[q][k + 1].kind = "r"
        /\ paragraphs[q][k + 1].src = paragraphs[q][k].src
        /\ paragraphs[q][k + 1].text # <<>>

\* C6: formatting preservation.  Every run carries the rPr of the input run
\* its text came from; and a split keeps the rPr of the truncated run, gives
\* the after run (when there is one) the rPr of the original run, and leaves
\* every other child of the paragraph and every other paragraph as it was.
FormattingKept ==
    \A q \in Paras : \A k \in RunAt(q) :
        paragraphs[q][k].rPr = input[q][paragraphs[q][k].src].rPr

SplitFrame ==
    paragraphs' # paragraphs =>
        LET k   == CurPos
            old == paragraphs[p]
            new == paragraphs'[p]
            n   == Len(new) - Len(old)
        IN /\ \A q \in Paras : q # p => paragraphs'[q] = paragraphs[q]
           /\ n \in {1, 2}
           /\ new[k].kind = "r" /\ new[k].rPr = old[k].rPr
           /\ n = 2 => new[k + 2].kind = "r" /\ new[k + 2].rPr = old[k].rPr
           /\ \A j \in 1..Len(old) :
                 /\ j < k => new[j] = old[j]
                 /\ j > k => new[j + n] = old[j]

FormattingPreserved == [](FormattingKept) /\ [][SplitFrame]_vars

\* A bold run has been split into a before run and an after run.
FormattingWitness ==
    \E q \in Paras : \E k \in RubyAt(q) :
        /\ k + 1 <= Len(paragraphs[q])
        /\ paragraphs[q][k + 1].kind = "r"
        /\ paragraphs[q][k + 1].src = paragraphs[q][k].src
        /\ paragraphs[q][k + 1].rPr = "bold"
        /\ paragraphs[q][k - 1].rPr = "bold"
        /\ Len(paragraphs[q]) > 3

\* The page segment of the input run s of paragraph q: the number of runs
\* carrying a page-break marker from the start of the loaded document up to
\* and including that run.
PageOf(q, s) ==
    Cardinality({<<a, b>> \in (1..Len(input)) \X (1..MaxSize) :
                    /\ b <= Len(input[a])
                    /\ input[a][b].marker
                    /\ a < q \/ (a = q /\ b <= s)})

RubyOn(word, pg) ==
    {c \in AllRuby : /\ paragraphs[c[1]][c[2]].rubyBase = word
                     /\ PageOf(c[1], paragraphs[c[1]][c[2]].src) = pg}

\* C1: in per_page mode every target word gets at most one annotation in
\* each page segment of the document.
PerPageOncePerSegment ==
    mode = "per_page" =>
        \A w \in TargetWords : \A pg \in 0..MaxSize :
            Cardinality(RubyOn(w, pg)) <= 1

\* Number of non-overlapping occurrences of a non-empty word in a text,
\* counted from the left starting at offset k.
RECURSIVE Greedy(_, _, _)
Greedy(text, word, k) ==
    IF k + Len(word) > Len(text) THEN 0
    ELSE IF OccursAt(text, word, k)
         THEN 1 + Greedy(text, word, k + Len(word))
         ELSE Greedy(text, word, k + 1)

RECURSIVE ParaOcc(_, _)
ParaOcc(para, word) ==
    IF para = <<>> THEN 0
    ELSE Greedy(para[1].text, word, 0) + ParaOcc(Tail(para), word)

\* Occurrences of the word inside single runs of the loaded document.
RECURSIVE DocOcc(_, _)
DocOcc(doc, word) ==
    IF doc = <<>> THEN 0
    ELSE ParaOcc(doc[1], word) + DocOcc(Tail(doc), word)

HasMarker == \E q \in 1..Len(input) : \E k \in 1..Len(input[q]) :
                 input[q][k].marker

RubyFor(word) == {c \in AllRuby : paragraphs[c[1]][c[2]].rubyBase = word}

\* The input runs, in document order, whose text holds the word.
RunsWith(word) ==
    {c \in (1..Len(input)) \X (1..MaxSize) :
        c[2] <= Len(input[c[1]]) /\ Occurs(input[c[1]][c[2]].text, word)}

Before(c, d) == c[1] < d[1] \/ (c[1] = d[1] /\ c[2] < d[2])

\* The only ruby element of the document sits at the first occurrence of the
\* word: in the first input run holding the word, at its lowest offset.
AtFirstOccurrence(word) ==
    \E f \in RunsWith(word) : \E k \in RubyAt(f[1]) :
        LET para == paragraphs[f[1]]
            text == input[f[1]][f[2]].text
            off  == Len(para[k - 1].text)
        IN /\ \A g \in RunsWith(word) : g = f \/ Before(f, g)
           /\ para[k].src = f[2]
           /\ para[k - 1].kind = "r" /\ para[k - 1].src = f[2]
           /\ para[k - 1].text = SubSeq(text, 1, off)
           /\ OccursAt(text, word, off)
           /\ \A j \in 0..(off - 1) : ~OccursAt(text, word, j)

\* C2: in once mode a word that has been applied stays applied, so every
\* word gets at most one annotation in the whole document; with a single
\* rule whose word occurs in some run, the finished document holds exactly
\* one annotation, at the first occurrence in document order.
OnceSticky ==
    \A w \in DOMAIN global_applied : global_applied[w] => global_applied'[w]

OnceAtMostOne ==
    mode = "once" =>
        /\ \A w \in TargetWords :
              /\ Cardinality(RubyFor(w)) <= 1
              /\ global_applied[w] <=> RubyFor(w) # {}
        /\ (pc = "done" /\ Len(ruby_settings) = 1
               /\ RunsWith(ruby_settings[1].word) # {})
             => /\ Cardinality(AllRuby) = 1
                /\ AtFirstOccurrence(ruby_settings[1].word)

OnceMode == [](OnceAtMostOne) /\ [][OnceSticky]_vars

\* A finished once-mode call with one rule whose word occurred three times,
\* in more than one paragraph, with a page-break marker on the way.
OnceWitness ==
    /\ pc = "done" /\ mode = "once" /\ Len(ruby_settings) = 1
    /\ Len(input) > 1
    /\ \E c \in RunsWith(ruby_settings[1].word) : input[c[1]][c[2]].marker
    /\ DocOcc(input, ruby_settings[1].word) = 3
    /\ Cardinality(AllRuby) = 1

\* C3: in all mode every occurrence is annotated.  When the call has
\* finished no run text holds a target word, and with a single rule the
\* number of annotations is the number of occurrences of its word inside
\* single runs of the loaded document, page-break markers or not.
AllModeComplete ==
    (pc = "done" /\ mode = "all") =>
        /\ \A q \in Paras : \A k \in RunAt(q) : \A w \in TargetWords :
              ~Occurs(paragraphs[q][k].text, w)
        /\ Len(ruby_settings) = 1 =>
              Cardinality(AllRuby) = DocOcc(input, ruby_settings[1].word)

\* A finished all-mode call with one rule whose word occurred three times in
\* a document with a page-break marker: three annotations.
AllModeWitness ==
    /\ pc = "done" /\ mode = "all" /\ Len(ruby_settings) = 1
    /\ HasMarker
    /\ DocOcc(input, ruby_settings[1].word) = 3
    /\ Cardinality(AllRuby) = 3

\* C4: longest-match precedence.  The annotation made in a scan step is never
\* for a word shorter than another target word that is eligible at that
\* moment and occurs in the run being scanned, whatever the registration
\* order and the offsets.  With rules for "b" and "ab" and a document whose
\* only run reads "ab", the finished document holds exactly one annotation:
\* base "ab" with the reading of the "ab" rule.
LongestWins ==
    paragraphs' # paragraphs =>
        LET made == paragraphs'[p][CurPos + 1]
        IN /\ made.kind = "ruby"
           /\ \A k \in 1..Len(ruby_settings) :
                 LET w == ruby_settings[k].word
                 IN (/\ ~skipped(mode, global_applied, AfterBreakCheck, w)
                     /\ Occurs(CurRun.text, w))
                      => Len(w) <= Len(made.rubyBase)

NestedExample ==
    (/\ pc = "done"
     /\ Len(input) = 1 /\ Len(input[1]) = 1
     /\ input[1][1].text = <<"a", "b">>
     /\ TargetWords = {<<"b">>, <<"a", "b">>})
      => /\ Cardinality(AllRuby) = 1
         /\ Len(paragraphs[1]) = 2
         /\ paragraphs[1][1].kind = "r" /\ paragraphs[1][1].text = <<>>
         /\ paragraphs[1][2].kind = "ruby"
         /\ paragraphs[1][2].rubyBase = <<"a", "b">>
         /\ \E k \in 1..Len(ruby_settings) :
               /\ ruby_settings[k].word = <<"a", "b">>
               /\ ruby_settings[k].ruby = paragraphs[1][2].rt

LongestMatch == [](NestedExample) /\ [][LongestWins]_vars

\* The shorter word is registered first and occurs at a lower offset of the
\* run ("b" at 0 and "ab" at 1 of "bab"), and the annotation made is "ab".
LongestMatchWitness ==
    /\ Len(ruby_settings) = 2
    /\ ruby_settings[1].word = <<"b">>
    /\ ruby_settings[2].word = <<"a", "b">>
    /\ \E c \in AllRuby :
          /\ paragraphs[c[1]][c[2]].rubyBase = <<"a", "b">>
          /\ paragraphs[c[1]][c[2]].rt = ruby_settings[2].ruby
          /\ input[c[1]][paragraphs[c[1]][c[2]].src].text = <<"b", "a", "b">>
          /\ RubyFor(<<"b">>) = {}

\* Total length of the run text of a paragraph.
RECURSIVE RunTextLen(_)
RunTextLen(para) ==
    IF para = <<>> THEN 0
    ELSE (IF para[1].kind = "r" THEN Len(para[1].text) ELSE 0)
           + RunTextLen(Tail(para))

\* A step of the while loop that does not advance the run index: a restart.
RestartStep == pc = "scan" /\ pc' = "scan" /\ p' = p /\ i' <= i

\* C7: the rescan loop terminates.  With non-empty words, every call reaches
\* the end (doc.save) after finitely many steps; each restart comes with
\* exactly one split, which adds one ruby element and strictly decreases
\* the total length of the run text of the paragraph; and the element the
\* loop reads is always a run, never a ruby element.
RestartShrinks ==
    RestartStep =>
        /\ i' = 0
        /\ RunTextLen(paragraphs'[p]) < RunTextLen(paragraphs[p])
        /\ Cardinality({k \in 1..Len(paragraphs'[p]) :
                           paragraphs'[p][k].kind = "ruby"})
             = Cardinality(RubyAt(p)) + 1

OnlyRunsScanned == InLoop => CurRun.kind = "r"

Terminates ==
    /\ <>(pc = "done")
    /\ [](OnlyRunsScanned)
    /\ [][RestartShrinks]_vars

\* A finished call in which one paragraph was restarted three times.
TerminatesWitness ==
    /\ pc = "done"
    /\ \E q \in Paras : Cardinality(RubyAt(q)) = 3 /\ HasMarker

\* C8: a call with an empty rule list or with a mode other than 'once',
\* 'per_page', 'all' is rejected before anything happens: no run is split,
\* no annotation is inserted and no output document is written.
ConfigErrorRejected ==
    (ruby_settings = <<>> \/ mode \notin Modes) =>
        /\ ~saved
        /\ paragraphs = input

\* C9: a rule with an empty word or an empty reading is rejected before any
\* mutation: no annotation with an empty base word or an empty reading is
\* ever inserted.
NoEmptyAnnotation ==
    \A c \in AllRuby :
        /\ paragraphs[c[1]][c[2]].rubyBase # <<>>
        /\ paragraphs[c[1]][c[2]].rt # <<>>

\* C10: idempotent re-scan in all mode.  A second call with the same rules
\* and mode 'all' on the document the first call produced changes nothing:
\* no step of the second call alters any paragraph (no run is split, no
\* annotation is added), and the text it scans is run text only.
SecondCallChangesNothing == pass = 2 => paragraphs' = paragraphs

SecondCallIdempotent ==
    /\ [][SecondCallChangesNothing]_vars
    /\ [](pass = 2 => OnlyRunsScanned)

\* The second call has finished on a document in which the first call made
\* two annotations, one of them for a word that is part of a longer one.
SecondCallWitness ==
    /\ pass = 2 /\ pc = "done"
    /\ Cardinality(AllRuby) >= 2
    /\ RubyFor(<<"a", "b">>) # {} /\ RubyFor(<<"b">>) # {}

\* The first-registered rule of a word.
FirstRule(word) ==
    ruby_settings[CHOOSE k \in 1..Len(ruby_settings) :
                     /\ ruby_settings[k].word = word
                     /\ \A j \in 1..(k - 1) : ruby_settings[j].word # word]

Duplicated(word) ==
    \E j, k \in 1..Len(ruby_settings) :
        /\ j < k
        /\ ruby_settings[j].word = word /\ ruby_settings[k].word = word
        /\ ruby_settings[j].ruby # ruby_settings[k].ruby

\* C11: duplicate words.  In every mode every annotation carries the reading
\* of the first-registered rule of its word, also when later rules give the
\* same word another reading; and a split made in once or per_page mode
\* leaves every rule with the matched word skipped, all of them together.
FirstReadingWins ==
    \A c \in AllRuby :
        LET e == paragraphs[c[1]][c[2]]
        IN /\ e.rubyBase \in TargetWords
           /\ e.rt = FirstRule(e.rubyBase).ruby

AppliedTogether ==
    (paragraphs' # paragraphs /\ mode \in {"once", "per_page"}) =>
        LET made == paragraphs'[p][CurPos + 1]
        IN \A k \in 1..Len(sorted_settings) :
              sorted_settings[k].word = made.rubyBase
                => skipped(mode, global_applied', items_applied_on_page',
                           sorted_settings[k].word)

DuplicateWords == [](FirstReadingWins) /\ [][AppliedTogether]_vars

\* Two rules give the word "b" different readings, the word occurred twice
\* and the finished all-mode call made two annotations.
DuplicateWordsWitness ==
    /\ pc = "done" /\ mode = "all"
    /\ Duplicated(<<"b">>)
    /\ Cardinality(RubyFor(<<"b">>)) = 2

\* C12: boundary of a split.  A split keeps the matched run in place, puts
\* the ruby element right after it and makes an after run if and only if
\* the text following the match is non-empty; the run it makes never has
\* empty text.  When the matched word is the whole text of the run, the run
\* stays with empty text and no after run is made.
SplitBoundary ==
    paragraphs' # paragraphs =>
        LET k    == CurPos
            old  == paragraphs[p]
            new  == paragraphs'[p]
            text == old[k].text
            made == new[k + 1]
            off  == Len(new[k].text)
            rest == SubSeq(text, off + Len(made.rubyBase) + 1, Len(text))
        IN /\ new[k].kind = "r" /\ new[k].src = old[k].src
           /\ made.kind = "ruby"
           /\ OccursAt(text, made.rubyBase, off)
           /\ Len(new) \in {Len(old) + 1, Len(old) + 2}
           /\ Len(new) = Len(old) + 2 <=> rest # <<>>
           /\ Len(new) = Len(old) + 2 =>
                 /\ new[k + 2].kind = "r"
                 /\ new[k + 2].text = rest
                 /\ new[k + 2].text # <<>>
           /\ made.rubyBase = text =>
                 /\ new[k].text = <<>>
                 /\ Len(new) = Len(old) + 1

SplitAtBoundary == [][SplitBoundary]_vars

\* The matched word was the whole text of an input run, which stays with
\* empty text before the ruby element and without an after run; another
\* split of the document made an after run.
SplitAtBoundaryWitness ==
    /\ \E q \in Paras : \E k \in RubyAt(q) :
          /\ input[q][paragraphs[q][k].src].text = paragraphs[q][k].rubyBase
          /\ paragraphs[q][k - 1].kind = "r"
          /\ paragraphs[q][k - 1].text = <<>>
          /\ k < Len(paragraphs[q]) => paragraphs[q][k + 1].src
                                          # paragraphs[q][k].src
    /\ \E q \in Paras : \E k \in RubyAt(q) :
          /\ k < Len(paragraphs[q])
          /\ paragraphs[q][k + 1].kind = "r"
          /\ paragraphs[q][k + 1].src = paragraphs[q][k].src

\* The ruby elements of a paragraph, in order.
RECURSIVE RubySeq(_)
RubySeq(para) ==
    IF para = <<>> THEN <<>>
    ELSE (IF para[1].kind = "ruby" THEN <<para[1]>> ELSE <<>>)
           \o RubySeq(Tail(para))

\* The sequence s without its k-th element.
Without(s, k) == SubSeq(s, 1, k - 1) \o SubSeq(s, k + 1, Len(s))

\* An element without its ghost field.
NoSrc(e) == [f \in DOMAIN e \ {"src"} |-> e[f]]

\* C13: shape of the annotation node.  Every ruby element of the document
\* has three sub-elements in this order: the property block, the reading
\* holding one run whose text is the reading of the rule of its word, the
\* base holding one run whose text is that word.  The builder is pure: the
\* element a split inserts is the element create_ruby_element gives for the
\* matched rule, whose word is the text the split took out of the run, it is
\* a new element of the paragraph, and the elements that were there before
\* the split are as they were.
ThreeParts ==
    \A c \in AllRuby :
        LET e == paragraphs[c[1]][c[2]]
        IN /\ Len(e.children) = 3
           /\ e.children[1].tag = "w:rubyPr"
           /\ e.rubyPr = "distributeSpace"
           /\ e.children[2].tag = "w:rt"
           /\ e.children[3].tag = "w:rubyBase"
           /\ Len(e.children[2].runs) = 1
           /\ Len(e.children[3].runs) = 1
           /\ e.children[3].runs[1] \in TargetWords
           /\ e.children[2].runs[1] = FirstRule(e.children[3].runs[1]).ruby
           /\ NoSrc(e) = create_ruby_element(e.children[3].runs[1],
                                             e.children[2].runs[1])

BuilderPure ==
    paragraphs' # paragraphs =>
        LET k       == CurPos
            old     == paragraphs[p]
            new     == paragraphs'[p]
            setting == sorted_settings[CurMatch]
            made    == new[k + 1]
            nth     == Cardinality({j \in RubyAt(p) : j < k}) + 1
        IN /\ made.kind = "ruby"
           /\ NoSrc(made) = create_ruby_element(setting.word, setting.ruby)
           /\ made.children[3].runs = <<setting.word>>
           /\ made.children[2].runs = <<setting.ruby>>
           /\ OccursAt(old[k].text, made.children[3].runs[1],
                       Len(new[k].text))
           /\ Len(RubySeq(new)) = Len(RubySeq(old)) + 1
           /\ RubySeq(new)[nth] = made
           /\ Without(RubySeq(new), nth) = RubySeq(old)

AnnotationShape == [](ThreeParts) /\ [][BuilderPure]_vars

\* A paragraph holds two equal ruby elements built for the rule "b", and the
\* document a third element built for the rule "ab".
AnnotationShapeWitness ==
    \E q \in Paras : \E j, k \in RubyAt(q) :
        /\ j < k
        /\ NoSrc(paragraphs[q][j]) = NoSrc(paragraphs[q][k])
        /\ paragraphs[q][j].children[3].runs = << <<"b">> >>
        /\ \E c \in AllRuby : paragraphs[c[1]][c[2]].rubyBase = <<"a", "b">>

\* C14: the page-break check comes before the search.  A loop step at a run
\* carrying a page-break marker resets the per-page tracker first, also when
\* the text of the run is empty: after the step no word is marked applied on
\* the page but the word the step itself annotated.  So in per_page mode a
\* marker run whose text holds a target word is split in that step, whatever
\* was applied on the page before; and in the finished document every input
\* run with a marker and a target word in its text holds an annotation.
ResetBeforeSearch ==
    (InLoop /\ is_page_break(CurRun)) =>
        LET hit == {w \in TargetWords : Occurs(CurRun.text, w)}
        IN /\ (CurRun.text = <<>> \/ paragraphs' = paragraphs) =>
                 \A w \in TargetWords : ~items_applied_on_page'[w]
           /\ (mode = "per_page" /\ hit # {}) =>
                 /\ paragraphs' # paragraphs
                 /\ paragraphs'[p][CurPos + 1].kind = "ruby"
                 /\ paragraphs'[p][CurPos + 1].rubyBase \in hit
                 /\ \A w \in TargetWords :
                       items_applied_on_page'[w]
                         <=> w = paragraphs'[p][CurPos + 1].rubyBase

MarkerRunAnnotated ==
    (pc = "done" /\ mode = "per_page") =>
        \A q \in Paras : \A s \in 1..Len(input[q]) :
            (/\ input[q][s].marker
             /\ \E w \in TargetWords : Occurs(input[q][s].text, w))
              => \E k \in RubyAt(q) : paragraphs[q][k].src = s

MarkerBeforeSearch == [](MarkerRunAnnotated) /\ [][ResetBeforeSearch]_vars

\* A finished per_page call: the word was annotated in a run of the first
\* page and again in the marker run that starts the next page, and the
\* tracker was also reset at a marker run with empty text.
MarkerBeforeSearchWitness ==
    /\ pc = "done" /\ mode = "per_page"
    /\ \E c, d \in AllRuby :
          LET e == paragraphs[c[1]][c[2]]
              f == paragraphs[d[1]][d[2]]
          IN /\ e.rubyBase = f.rubyBase
             /\ ~input[c[1]][e.src].marker
             /\ PageOf(c[1], e.src) = 0
             /\ input[d[1]][f.src].marker
             /\ PageOf(d[1], f.src) = 1
    /\ \E q \in Paras : \E s \in 1..Len(input[q]) :
          input[q][s].marker /\ input[q][s].text = <<>>

\* The while loop of paragraph p has ended: i has reached len(paragraph.runs).
LoopEnded == pc = "scan" /\ p <= Len(paragraphs)
                 /\ i >= Len(runs(paragraphs[p]))

\* The run at child position k holds a target word that the trackers, as they
\* are now, do not skip.
EligibleIn(q, k) ==
    \E w \in TargetWords :
        /\ Occurs(paragraphs[q][k].text, w)
        /\ ~skipped(mode, global_applied, items_applied_on_page, w)

\* Child position of the last run of paragraph q that carries a page-break
\* marker; 0 when no run of the paragraph does.
LastMarker(q) ==
    LET M == {k \in RunAt(q) : paragraphs[q][k].marker}
    IN IF M = {} THEN 0 ELSE CHOOSE k \in M : \A j \in M : j <= k

\* C15 as stated: when the run-index loop of a paragraph ends, no run of the
\* paragraph has text holding a target word that is eligible under the
\* trackers as they are at that moment.
DonePostcondition ==
    LoopEnded => \A k \in RunAt(p) : ~EligibleIn(p, k)

\* C15 as amended: the same in the modes once and all; in per_page mode for
\* the runs from the last marker run of the paragraph on (every run when the
\* paragraph has no marker run): the runs before it were searched under the
\* tracker of the page they lie on.
DoneOnCurrentPage ==
    LoopEnded =>
        \A k \in RunAt(p) :
            (mode = "per_page" => k >= LastMarker(p)) => ~EligibleIn(p, k)

\* The loop of a paragraph has ended in per_page mode, a run of the current
\* page still holds a target word, which is applied on the page, and the
\* paragraph has been split.
DoneOnCurrentPageWitness ==
    /\ LoopEnded /\ mode = "per_page"
    /\ RubyAt(p) # {}
    /\ \E k \in RunAt(p) : \E w \in TargetWords :
          /\ k >= LastMarker(p)
          /\ Occurs(paragraphs[p][k].text, w)
          /\ items_applied_on_page[w]

\* Number of children of a kind in a paragraph.
CountKind(para, kind) ==
    Cardinality({k \in 1..Len(para) : para[k].kind = kind})

\* C16: structure of a splice.  A split puts, in place of the matched run,
\* the truncated run, the ruby element right after it and, when there is
\* text after the match, the after run right after the ruby element.  The
\* paragraph gains exactly one ruby element and at most one run; the children
\* before the matched run and those after it stay as they were and in their
\* order; the other paragraphs are untouched.
SpliceInPlace ==
    paragraphs' # paragraphs =>
        LET k    == CurPos
            old  == paragraphs[p]
            new  == paragraphs'[p]
            n    == Len(new) - Len(old)
            word == new[k + 1].rubyBase
        IN /\ Len(paragraphs') = Len(paragraphs)
           /\ \A q \in Paras : q # p => paragraphs'[q] = paragraphs[q]
           /\ n \in {1, 2}
           /\ CountKind(new, "ruby") = CountKind(old, "ruby") + 1
           /\ CountKind(new, "r") = CountKind(old, "r") + (n - 1)
           /\ SubSeq(new, 1, k - 1) = SubSeq(old, 1, k - 1)
           /\ SubSeq(new, k + n + 1, Len(new)) = SubSeq(old, k + 1, Len(old))
           /\ new[k].kind = "r" /\ new[k].src = old[k].src
           /\ new[k + 1].kind = "ruby"
           /\ n = 2 => new[k + 2].kind = "r" /\ new[k + 2].src = old[k].src
           /\ old[k].text = new[k].text \o word
                              \o (IF n = 2 THEN new[k + 2].text ELSE <<>>)

SpliceStructure == [][SpliceInPlace]_vars

\* A run with children of the paragraph before it and after it has been split
\* into the truncated run, the ruby element and the after run.
SpliceStructureWitness ==
    \E q \in Paras : \E k \in RubyAt(q) :
        /\ k >= 3
        /\ k + 2 <= Len(paragraphs[q])
        /\ paragraphs[q][k - 1].src = paragraphs[q][k].src
        /\ paragraphs[q][k + 1].kind = "r"
        /\ paragraphs[q][k + 1].src = paragraphs[q][k].src
        /\ paragraphs[q][k + 2].src # paragraphs[q][k].src

\* C17: page-break markers survive processing.  Every input run that carried
\* a page-break marker is still there as the first child made from it, at
\* the same place of the text of its paragraph, and still carries the marker.
MarkersSurvive ==
    \A q \in Paras : \A s \in 1..Len(input[q]) :
        input[q][s].marker =>
            \E k \in RunAt(q) :
                /\ paragraphs[q][k].src = s
                /\ \A j \in 1..(k - 1) : paragraphs[q][j].src # s
                /\ Flat(SubSeq(paragraphs[q], 1, k - 1))
                     = Flat(SubSeq(input[q], 1, s - 1))
                /\ paragraphs[q][k].marker

\* The runs the engine has made as after runs and not touched since.
AfterRuns ==
    {c \in Paras \X (1..MaxChildren) :
        /\ c[2] <= Len(paragraphs[c[1]])
        /\ paragraphs[c[1]][c[2]].kind = "r"
        /\ paragraphs[c[1]][c[2]].space \in {"preserve", "default"}}

StartsOrEndsWithWhitespace(text) ==
    text # <<>> /\ (text[1] \in Whitespace \/ text[Len(text)] \in Whitespace)

\* C18: whitespace flag of the after run.  An after run is marked to preserve
\* whitespace if and only if its text starts or ends with a whitespace
\* character: a space, a tab or a line break.
WhitespaceFlag ==
    \A c \in AfterRuns :
        LET run == paragraphs[c[1]][c[2]]
        IN run.space = "preserve" <=> StartsOrEndsWithWhitespace(run.text)

\* What C19 says of every state of the wizard: step is 1, 2 or 3; the
\* conversion is called only in a pass where a file is uploaded and the rule
\* list is not empty; execute without a file leaves step at 1, execute with
\* an empty rule list leaves step at 2, both without calling the conversion.
WizardGuards ==
    /\ step \in {1, 2, 3}
    /\ called => /\ event = "execute"
                 /\ uploaded_file
                 /\ ruby_list # <<>>
                 /\ ruby_settings = to_settings(ruby_list)
    /\ (event = "execute" /\ ~uploaded_file) => step = 1 /\ ~called
    /\ (event = "execute" /\ uploaded_file /\ ruby_list = <<>>)
          => step = 2 /\ ~called

StepTo3 == (step' = 3 /\ step # 3) => step = 2 /\ ruby_list # <<>>

\* C19 as stated: step becomes 2 only from 1 with a file uploaded.
StepTo2FromOne == (step' = 2 /\ step # 2) => step = 1 /\ uploaded_file

WizardAsStated ==
    [](WizardGuards) /\ [][StepTo3 /\ StepTo2FromOne]_vars

\* C19 as amended: step becomes 2 from 1 with a file uploaded, or from 3 when
\* execute is pressed with a file uploaded and an empty rule list; step
\* becomes 1 only when execute is pressed without a file.
StepTo2 ==
    (step' = 2 /\ step # 2) =>
        \/ step = 1 /\ uploaded_file /\ event' = "next_to_2"
        \/ /\ step = 3 /\ event' = "execute"
           /\ uploaded_file /\ ruby_list = <<>>

StepTo1 ==
    (step' = 1 /\ step # 1) => event' = "execute" /\ ~uploaded_file

WizardSafe ==
    [](WizardGuards) /\ [][StepTo3 /\ StepTo2 /\ StepTo1]_vars

\* Execute has been pressed with a file and a rule list of two rows: the
\* conversion is called with the two rules, and step stays 3.
WizardSafeWitness ==
    /\ event = "execute"
    /\ step = 3
    /\ uploaded_file
    /\ Len(ruby_list) = 2
    /\ called
    /\ Len(ruby_settings) = 2

====
